---- MODULE Spec2Model ----
(***************************************************************************)
(* Model of the envd/MIDI graph compiler (package ir: NewGraph,            *)
(* Graph.Compile and its layer builders) and of the shell bootstrap        *)
(* manager (package shell: generalManager.DownloadOrCache).                *)
(*                                                                         *)
(* An llb.State is modelled as the tree of operations that built it: a     *)
(* node [op, label, mounts, args] where args are the States the operation  *)
(* was applied to.  Run, Diff, Merge, File, Image, Local and Scratch only  *)
(* record their arguments, so two States are equal exactly when they were  *)
(* composed the same way.                                                  *)
(*                                                                         *)
(* Spec starts from Graphs whose two GPU versions are both set or both     *)
(* absent, SpecAnyGPU from Graphs whose two pointer fields are assigned    *)
(* independently, and SpecZsh runs the shell manager alone.  A Go panic    *)
(* ends the program: no call follows one.                                  *)
(***************************************************************************)
EXTENDS Naturals, Sequences, FiniteSets, TLC

VARIABLES
    g,          \* the Graph the program compiles (DefaultGraph)
    g0,         \* history: the Graph as it was constructed
    failing,    \* plugins for which the plugin cache's DownloadOrCache fails
    ret,        \* the last call on the Graph: what was called and what it returned
    compiles,   \* number of Graph.Compile calls made in a row
    dir,        \* the oh-my-zsh cache directory: "absent" or "present"
    shellLog    \* the DownloadOrCache calls of the shell manager so far, in order

vars == <<g, g0, failing, ret, compiles, dir, shellLog>>

----------------------------------------------------------------------------
(* Bounds of the model *)

MaxPyPI == 1
MaxSys == 1
MaxPlugins == 3
MaxBaseCalls == 2
MaxCompiles == 2
MaxShellCalls == 4

----------------------------------------------------------------------------
(* Values of the package that are declared outside the two source files *)

Nil == "<nil>"
NoErr == ""

osDefault == "ubuntu20.04"
languageDefault == "python"
aptSourceFilePath == "/etc/apt/sources.list"
pypiMirrorFilePath == "/etc/pip.conf"
FlagSSHImage == "flag:ssh-image"
FlagCacheDir == "flag:cache-dir"

\* fmt.Sprintf(pypiConfigTemplate, mirror)
pypiConfig(mirror) == "[global]\nindex-url=" \o mirror

\* filepath.Dir on the two fixed paths it is applied to
Dir(path) ==
    CASE path = aptSourceFilePath -> "/etc/apt"
      [] path = pypiMirrorFilePath -> "/etc"

\* vscode.Plugin values and their String() form
PluginAt(i) == "publisher.ext" \o ToString(i)
\* vscode.Client.PluginPath
PluginPath(p) == "vscode/" \o p
\* vscode.Client.DownloadOrCache: fails for the plugins in F
PluginDownloadOrCache(p, F) == IF p \in F THEN "download failed: " \o p ELSE NoErr

----------------------------------------------------------------------------
(* llb: States as recorded operation trees *)

Node(op, label, mounts, args) ==
    [op |-> op, label |-> label, mounts |-> mounts, args |-> args]

Scratch == Node("scratch", "", <<>>, <<>>)
\* the zero value llb.State{}
ZeroState == Node("zero", "", <<>>, <<>>)
Image(ref) == Node("image", ref, <<>>, <<>>)
Local(name) == Node("local", name, <<>>, <<>>)
\* run.AddMount(dir, llb.Scratch(), llb.AsPersistentCacheDir("/"+dir, llb.CacheMountShared))
CacheMount(target) == [target |-> target, id |-> "/" \o target, sharing |-> "shared"]
\* root.Run(llb.Shlex(cmd)) with its mounts, then .Root()
Run(root, cmd, mounts) == Node("run", cmd, mounts, <<root>>)
Mkdir(root, path) == Node("file", "mkdir -p 0755 " \o path, <<>>, <<root>>)
Mkfile(root, path, content) ==
    Node("file", "mkfile 0644 " \o path \o " " \o content, <<>>, <<root>>)
Copy(root, from, src, dest) ==
    Node("file", "copy " \o src \o " " \o dest, <<>>, <<root, from>>)
Merge(inputs) == Node("merge", "", <<>>, inputs)
Diff(lower, upper) == Node("diff", "", <<>>, <<lower, upper>>)

\* " %s" for every package, in order
RECURSIVE JoinPkgs(_)
JoinPkgs(pkgs) ==
    IF pkgs = <<>> THEN "" ELSE " " \o Head(pkgs) \o JoinPkgs(Tail(pkgs))

----------------------------------------------------------------------------
(* package ir *)

NewGraph ==
    [ OS |-> osDefault,
      Language |-> languageDefault,
      CUDA |-> Nil,
      CUDNN |-> Nil,
      BuiltinSystemPackages |-> <<"curl", "openssh-client">>,
      PyPIPackages |-> <<>>,
      SystemPackages |-> <<>>,
      VSCodePlugins |-> <<>>,
      UbuntuAPTSource |-> Nil,
      PyPIMirror |-> Nil ]

\* func (g *Graph) compileCUDAPackages(): dereferences both versions, then
\* appends to the receiver's built-in list.  A nil version panics before the
\* append.
compileCUDAPackages(d) ==
    IF d.CUDA = Nil \/ d.CUDNN = Nil
    THEN [state |-> ZeroState, g |-> d, panicked |-> TRUE]
    ELSE [state |-> Image("nvidia/cuda:" \o d.CUDA \o ".0-cudnn" \o d.CUDNN
                          \o "-devel-" \o d.OS),
          g |-> [d EXCEPT !.BuiltinSystemPackages =
                      @ \o <<d.Language, d.Language \o "-pip">>],
          panicked |-> FALSE]

\* func (g *Graph) compileBase(): the State, and the receiver afterwards
compileBase(d) ==
    IF d.CUDA = Nil /\ d.CUDNN = Nil
    THEN [state |-> Image("docker.io/library/python:3.8"), g |-> d,
          panicked |-> FALSE]
    ELSE compileCUDAPackages(d)

\* Faulty variant: the empty-list guard is missing
compilePyPIPackages_noguard(d, root) ==
    Run(root, "pip install" \o JoinPkgs(d.PyPIPackages),
        <<CacheMount("/root/.cache/pip")>>)

compilePyPIPackages(d, root) ==
    IF Len(d.PyPIPackages) = 0
    THEN root
    ELSE Run(root, "pip install" \o JoinPkgs(d.PyPIPackages),
             <<CacheMount("/root/.cache/pip")>>)

compileBuiltinSystemPackages(d, root) ==
    IF Len(d.BuiltinSystemPackages) = 0
    THEN root
    ELSE Run(root,
             "sh -c \"apt-get update && apt-get install -y --no-install-recommends"
                 \o JoinPkgs(d.BuiltinSystemPackages) \o "\"",
             <<CacheMount("/var/cache/apt"), CacheMount("/var/lib/apt")>>)

\* Faulty variant: the empty-list guard is missing
compileSystemPackages_noguard(d, root) ==
    Run(root, "apt install" \o JoinPkgs(d.SystemPackages),
        <<CacheMount("/var/cache/apt"), CacheMount("/var/lib/apt")>>)

compileSystemPackages(d, root) ==
    IF Len(d.SystemPackages) = 0
    THEN root
    ELSE Run(root, "apt install" \o JoinPkgs(d.SystemPackages),
             <<CacheMount("/var/cache/apt"), CacheMount("/var/lib/apt")>>)

copyMidiSSHServer ==
    Copy(Scratch, Image(FlagSSHImage), "usr/bin/midi-ssh", "/var/midi/bin/midi-ssh")

\* Faulty variant: a failed download is skipped and the loop carries on
RECURSIVE vscodeLoop_continue(_, _, _, _)
vscodeLoop_continue(ps, F, inputs, calls) ==
    IF ps = <<>>
    THEN [isNil |-> FALSE, state |-> Merge(inputs), err |-> NoErr, downloads |-> calls]
    ELSE LET p == Head(ps)
         IN vscodeLoop_continue(Tail(ps), F,
                IF PluginDownloadOrCache(p, F) # NoErr THEN inputs
                ELSE Append(inputs,
                         Copy(Scratch, Local(FlagCacheDir), PluginPath(p),
                              "/root/.vscode-server/extensions/" \o p)),
                Append(calls, p))

\* the loop of compileVSCode over the plugins still to do
RECURSIVE vscodeLoop(_, _, _, _)
vscodeLoop(ps, F, inputs, calls) ==
    IF ps = <<>>
    THEN [isNil |-> FALSE, state |-> Merge(inputs), err |-> NoErr, downloads |-> calls]
    ELSE LET p == Head(ps)
             err == PluginDownloadOrCache(p, F)
         IN IF err # NoErr
            THEN [isNil |-> TRUE, state |-> ZeroState, err |-> err,
                  downloads |-> Append(calls, p)]
            ELSE vscodeLoop(Tail(ps), F,
                     Append(inputs,
                         Copy(Scratch, Local(FlagCacheDir), PluginPath(p),
                              "/root/.vscode-server/extensions/" \o p)),
                     Append(calls, p))

\* func (g Graph) compileVSCode() (*llb.State, error)
compileVSCode(d, F) ==
    IF Len(d.VSCodePlugins) = 0
    THEN [isNil |-> TRUE, state |-> ZeroState, err |-> NoErr, downloads |-> <<>>]
    ELSE vscodeLoop(d.VSCodePlugins, F, <<>>, <<>>)

compileUbuntuAPT(d, root) ==
    IF d.UbuntuAPTSource # Nil
    THEN Merge(<<root,
                 Mkfile(Mkdir(Scratch, Dir(aptSourceFilePath)),
                        aptSourceFilePath, d.UbuntuAPTSource)>>)
    ELSE root

compilePyPIMirror(d, root) ==
    IF d.PyPIMirror # Nil
    THEN Merge(<<root,
                 Mkfile(Mkdir(Scratch, Dir(pypiMirrorFilePath)),
                        pypiMirrorFilePath, pypiConfig(d.PyPIMirror))>>)
    ELSE root

(* The local variables of Graph.Compile.  gl is Compile's own copy of the  *)
(* Graph after g.compileBase() ran on it; b is the State compileBase       *)
(* returned.                                                               *)
aptStage(gl, b) == compileUbuntuAPT(gl, b)
builtinSystemStage(gl, b) == compileBuiltinSystemPackages(gl, aptStage(gl, b))
pypiMirrorStage(gl, b) == compilePyPIMirror(gl, builtinSystemStage(gl, b))
pypiStage(gl, b) ==
    Diff(aptStage(gl, b), compilePyPIPackages(gl, pypiMirrorStage(gl, b)))
\* Faulty variant: the user packages are installed on top of the language packages
systemStage_chained(gl, b) ==
    Diff(aptStage(gl, b),
         compileSystemPackages(gl, compilePyPIPackages(gl, pypiMirrorStage(gl, b))))

systemStage(gl, b) ==
    Diff(aptStage(gl, b), compileSystemPackages(gl, aptStage(gl, b)))
sshStage == copyMidiSSHServer

\* Faulty variant: an absent plugin layer is merged as an empty layer
mergeInputs_placeholder(gl, b, vs) ==
    <<aptStage(gl, b), systemStage(gl, b), pypiStage(gl, b), sshStage,
      IF vs.isNil THEN Merge(<<>>) ELSE vs.state>>

\* the list handed to llb.Merge, with or without the plugin layer
mergeInputs(gl, b, vs) ==
    IF ~vs.isNil
    THEN <<aptStage(gl, b), systemStage(gl, b), pypiStage(gl, b), sshStage, vs.state>>
    ELSE <<aptStage(gl, b), systemStage(gl, b), pypiStage(gl, b), sshStage>>

\* Faulty variant: Compile with a pointer receiver, compileBase appends to the caller's Graph
callerGraphAfterCompile_pointer(d, gl) == gl

\* The Graph the caller holds after Compile returned: Compile has a value
\* receiver, so compileBase assigned the appended slice to Compile's copy only;
\* the caller's slice keeps its length, whatever its capacity.
callerGraphAfterCompile(d, gl) == d

\* func (g Graph) Compile() (llb.State, error)
Compile(d, F) ==
    LET cb == compileBase(d)
        gl == cb.g
        vs == compileVSCode(gl, F)
    IN IF cb.panicked
       THEN [state |-> ZeroState, err |-> NoErr, panicked |-> TRUE,
             downloads |-> <<>>, g |-> callerGraphAfterCompile(d, gl)]
       ELSE IF vs.err # NoErr
       THEN [state |-> ZeroState,
             err |-> "failed to get vscode plugins: " \o vs.err,
             panicked |-> FALSE, downloads |-> vs.downloads,
             g |-> callerGraphAfterCompile(d, gl)]
       ELSE [state |-> Merge(mergeInputs(gl, cb.state, vs)), err |-> NoErr,
             panicked |-> FALSE, downloads |-> vs.downloads,
             g |-> callerGraphAfterCompile(d, gl)]

----------------------------------------------------------------------------
(* package shell *)

\* fileutil.DirExists on the cache directory: (ok, err).  The stat itself may
\* fail whatever the directory's state.
DirExists(d, statFails) ==
    IF statFails THEN [ok |-> FALSE, err |-> "stat failed"]
    ELSE [ok |-> (d = "present"), err |-> NoErr]

\* git.PlainClone into the cache directory: it refuses an existing directory,
\* and otherwise succeeds or fails; a failed clone may leave a partial
\* directory behind (left) or none.
PlainClone(d, cloneFails, left) ==
    IF d = "present" THEN [err |-> "repository already exists", dir |-> d, cloned |-> FALSE]
    ELSE IF cloneFails THEN [err |-> "clone failed", dir |-> left, cloned |-> FALSE]
    ELSE [err |-> NoErr, dir |-> "present", cloned |-> TRUE]

\* Faulty variant: the early return for an existing directory is missing
DownloadOrCache_noreturn(d, statFails, cloneFails, left) ==
    LET ex == DirExists(d, statFails)
        cl == PlainClone(d, cloneFails, left)
    IN IF ex.err # NoErr
       THEN [err |-> ex.err, observed |-> "error", attempted |-> FALSE,
             dir |-> d, cloned |-> FALSE]
       ELSE [err |-> cl.err, observed |-> IF ex.ok THEN "present" ELSE "absent",
             attempted |-> TRUE, dir |-> cl.dir, cloned |-> cl.cloned]

\* func (m generalManager) DownloadOrCache() error
DownloadOrCache(d, statFails, cloneFails, left) ==
    LET ex == DirExists(d, statFails)
        cl == PlainClone(d, cloneFails, left)
    IN IF ex.err # NoErr
       THEN [err |-> ex.err, observed |-> "error", attempted |-> FALSE,
             dir |-> d, cloned |-> FALSE]
       ELSE IF ex.ok
       THEN [err |-> NoErr, observed |-> "present", attempted |-> FALSE,
             dir |-> d, cloned |-> FALSE]
       ELSE [err |-> cl.err, observed |-> "absent", attempted |-> TRUE,
             dir |-> cl.dir, cloned |-> cl.cloned]

----------------------------------------------------------------------------
(* The state machine *)

RECURSIVE SeqsUpTo(_, _)
SeqsUpTo(S, n) ==
    IF n = 0 THEN {<<>>}
    ELSE LET shorter == SeqsUpTo(S, n - 1)
         IN shorter \cup {Append(s, x) : s \in shorter, x \in S}

Plugins(k) == [i \in 1..k |-> PluginAt(i)]

\* The Graphs the front end can hand to the compiler: NewGraph with its fields
\* assigned.  gpus is the set of <<CUDA, CUDNN>> pairs allowed.
Graphs(gpus) ==
    { [NewGraph EXCEPT
          !.CUDA = gpu[1], !.CUDNN = gpu[2],
          !.BuiltinSystemPackages = builtin,
          !.PyPIPackages = pypi,
          !.SystemPackages = sys,
          !.VSCodePlugins = Plugins(k),
          !.UbuntuAPTSource = apt,
          !.PyPIMirror = mirror] :
        gpu \in gpus,
        builtin \in {<<>>, NewGraph.BuiltinSystemPackages},
        pypi \in SeqsUpTo({"numpy"}, MaxPyPI),
        sys \in SeqsUpTo({"vim"}, MaxSys),
        k \in 0..MaxPlugins,
        apt \in {Nil, "deb http://mirror.example/ubuntu focal main"},
        mirror \in {Nil, "https://mirror.example/simple"} }

\* Both GPU versions or neither, as the data model has it
PairedGPU == {<<Nil, Nil>>, <<"11.6", "8">>}
\* The two pointer fields assigned independently
AnyGPU == {Nil, "11.6"} \X {Nil, "8"}

Called(fn, root, state, isNil, err, panicked, downloads) ==
    [fn |-> fn, root |-> root, state |-> state, isNil |-> isNil, err |-> err,
     panicked |-> panicked, downloads |-> downloads]

\* The Graph as constructed and configured; nothing called yet
InitGraph(gpus) ==
    /\ g \in Graphs(gpus)
    /\ g0 = g
    /\ failing \in SUBSET {g.VSCodePlugins[i] : i \in DOMAIN g.VSCodePlugins}
    /\ ret = Called("NewGraph", Scratch, ZeroState, TRUE, NoErr, FALSE, <<>>)
    /\ compiles = 0

\* The cache directory before the first DownloadOrCache
InitShell(dirs) ==
    /\ dir \in dirs
    /\ shellLog = <<>>

Init == InitGraph(PairedGPU) /\ InitShell({"absent"})
InitAnyGPU == InitGraph(AnyGPU) /\ InitShell({"absent"})
InitZsh == InitGraph({<<Nil, Nil>>}) /\ g = NewGraph /\ InitShell({"absent", "present"})

shellVars == <<dir, shellLog>>

\* The States a builder is called on: the empty State, the base image, and the
\* State Compile has built up when it reaches its last builder
Roots ==
    LET cb == compileBase(g)
    IN {Scratch, Image("docker.io/library/python:3.8")}
           \cup (IF cb.panicked THEN {}
                 ELSE {cb.state, pypiMirrorStage(cb.g, cb.state)})

\* DefaultGraph.Compile()
DoCompile ==
    /\ ~ret.panicked
    /\ compiles < MaxCompiles
    /\ LET r == Compile(g, failing)
       IN /\ ret' = Called("Compile", Scratch, r.state, FALSE, r.err, r.panicked,
                           r.downloads)
          /\ g' = r.g
    /\ compiles' = compiles + 1
    /\ UNCHANGED <<g0, failing, shellVars>>

\* (&g).compileBase() on the Graph itself; every call on a GPU Graph grows its
\* built-in list by two names
DoCompileBase ==
    /\ ~ret.panicked
    /\ Len(g.BuiltinSystemPackages) < Len(g0.BuiltinSystemPackages) + 2 * MaxBaseCalls
    /\ LET r == compileBase(g)
       IN /\ ret' = Called("compileBase", Scratch, r.state, FALSE, NoErr, r.panicked, <<>>)
          /\ g' = r.g
    /\ compiles' = 0
    /\ UNCHANGED <<g0, failing, shellVars>>

Builder(fn, state, root) ==
    /\ ~ret.panicked
    /\ ret' = Called(fn, root, state, FALSE, NoErr, FALSE, <<>>)
    /\ compiles' = 0
    /\ UNCHANGED <<g, g0, failing, shellVars>>

DoCompileUbuntuAPT ==
    \E root \in Roots : Builder("compileUbuntuAPT", compileUbuntuAPT(g, root), root)

DoCompileBuiltinSystemPackages ==
    \E root \in Roots :
        Builder("compileBuiltinSystemPackages", compileBuiltinSystemPackages(g, root), root)

DoCompilePyPIMirror ==
    \E root \in Roots : Builder("compilePyPIMirror", compilePyPIMirror(g, root), root)

DoCompilePyPIPackages ==
    \E root \in Roots : Builder("compilePyPIPackages", compilePyPIPackages(g, root), root)

DoCompileSystemPackages ==
    \E root \in Roots : Builder("compileSystemPackages", compileSystemPackages(g, root), root)

DoCopyMidiSSHServer ==
    /\ ~ret.panicked
    /\ ret' = Called("copyMidiSSHServer", Scratch, copyMidiSSHServer, FALSE, NoErr,
                     FALSE, <<>>)
    /\ compiles' = 0
    /\ UNCHANGED <<g, g0, failing, shellVars>>

DoCompileVSCode ==
    /\ ~ret.panicked
    /\ LET r == compileVSCode(g, failing)
       IN ret' = Called("compileVSCode", Scratch, r.state, r.isNil, r.err, FALSE,
                        r.downloads)
    /\ compiles' = 0
    /\ UNCHANGED <<g, g0, failing, shellVars>>

\* NewManager().DownloadOrCache()
DoDownloadOrCache ==
    /\ Len(shellLog) < MaxShellCalls
    /\ \E statFails \in BOOLEAN, cloneFails \in BOOLEAN, left \in {"absent", "present"} :
        LET r == DownloadOrCache(dir, statFails, cloneFails, left)
        IN /\ shellLog' = Append(shellLog,
                              [err |-> r.err, observed |-> r.observed,
                               attempted |-> r.attempted, cloned |-> r.cloned,
                               dirBefore |-> dir, dirAfter |-> r.dir])
           /\ dir' = r.dir
    /\ UNCHANGED <<g, g0, failing, ret, compiles>>

Next ==
    \/ DoCompile
    \/ DoCompileBase
    \/ DoCompileUbuntuAPT
    \/ DoCompileBuiltinSystemPackages
    \/ DoCompilePyPIMirror
    \/ DoCompilePyPIPackages
    \/ DoCompileSystemPackages
    \/ DoCopyMidiSSHServer
    \/ DoCompileVSCode

\* The graph compiler, from Graphs whose GPU versions are both set or both absent
Spec == Init /\ [][Next]_vars
\* The graph compiler, from Graphs whose GPU versions are set independently
SpecAnyGPU == InitAnyGPU /\ [][Next]_vars
\* The shell bootstrap manager
SpecZsh == InitZsh /\ [][DoDownloadOrCache]_vars

----------------------------------------------------------------------------
(* Reading a composed State *)

\* every node of the tree of s, s included
RECURSIVE Nodes(_)
Nodes(s) == {s} \cup UNION {Nodes(s.args[i]) : i \in DOMAIN s.args}

\* what a Diff node isolates: the operations of its upper State that its lower
\* State does not already hold
Added(d) == {n \in Nodes(d.args[2]) \ Nodes(d.args[1]) : n.op \in {"run", "file", "image"}}

IsRun(n, cmd) == n.op = "run" /\ n.label = cmd
pipCmd(d) == "pip install" \o JoinPkgs(d.PyPIPackages)
aptCmd(d) == "apt install" \o JoinPkgs(d.SystemPackages)
builtinCmd(pkgs) ==
    "sh -c \"apt-get update && apt-get install -y --no-install-recommends"
        \o JoinPkgs(pkgs) \o "\""

PluginSet(d) == {d.VSCodePlugins[i] : i \in DOMAIN d.VSCodePlugins}
\* the index at which the plugin cache first fails, 0 when it never does
FirstFailure(d, F) ==
    IF PluginSet(d) \cap F = {} THEN 0
    ELSE CHOOSE i \in DOMAIN d.VSCodePlugins :
            /\ d.VSCodePlugins[i] \in F
            /\ \A j \in 1..(i - 1) : d.VSCodePlugins[j] \notin F

Compiled == ret.fn = "Compile" /\ ~ret.panicked /\ ret.err = NoErr
\* the Graph as Compile sees it once base selection ran on its copy
AfterBase == compileBase(g)

----------------------------------------------------------------------------
(* C1: whenever plugin materialization does not fail, Compile returns, with *)
(* no error, the Merge of exactly aptStage, systemDiff, languageDiff and    *)
(* toolStage in this order, followed by the plugin layer if and only if the *)
(* extension list is non-empty; an empty list gives exactly four inputs.    *)
C1_MergeList ==
    (ret.fn = "Compile" /\ FirstFailure(g, failing) = 0) =>
        LET gl == AfterBase.g
            apt == compileUbuntuAPT(gl, AfterBase.state)
            systemDiff == Diff(apt, compileSystemPackages(gl, apt))
            languageDiff ==
                Diff(apt, compilePyPIPackages(gl,
                              compilePyPIMirror(gl,
                                  compileBuiltinSystemPackages(gl, apt))))
            four == <<apt, systemDiff, languageDiff, copyMidiSSHServer>>
        IN /\ ~ret.panicked
           /\ ret.err = NoErr
           /\ ret.state.op = "merge"
           /\ IF g.VSCodePlugins = <<>>
              THEN ret.state.args = four
              ELSE /\ Len(ret.state.args) = 5
                   /\ SubSeq(ret.state.args, 1, 4) = four
                   /\ ret.state.args[5] = compileVSCode(gl, failing).state
                   /\ ret.state.args[5].op = "merge"
                   /\ Len(ret.state.args[5].args) = Len(g.VSCodePlugins)

C1_Witness ==
    /\ Compiled /\ g.VSCodePlugins = <<>> /\ Len(ret.state.args) = 4
    /\ g.SystemPackages # <<>> /\ g.PyPIPackages # <<>>
    /\ g.UbuntuAPTSource # Nil

\* the five-input case is reached as well
C1_Reached_Five == Compiled /\ Len(g.VSCodePlugins) = MaxPlugins /\ Len(ret.state.args) = 5

(* C2: in a Compile result the language-package layer is a Diff against the *)
(* State the language-package install ran on, so it holds only the install  *)
(* Run of the language packages: neither the built-in installation nor the  *)
(* mirror file; with no language packages it holds nothing.                 *)
C2_LanguageDiffIsolated ==
    Compiled =>
        LET d == ret.state.args[3]
        IN /\ d.op = "diff"
           /\ \A n \in Added(d) : IsRun(n, pipCmd(g))
           /\ g.PyPIPackages = <<>> => Added(d) = {}
           /\ g.PyPIPackages # <<>> =>
                 /\ IsRun(d.args[2], pipCmd(g))
                 /\ d.args[1] = d.args[2].args[1]

(* C3: in a Compile result the two isolated layers do not hold each other's *)
(* install: the user-system-package install Run is no node of the           *)
(* language-package diff, and the language-package install Run is no node   *)
(* of the user-system-package diff.                                         *)
C3_LayersDisjoint ==
    Compiled =>
        LET systemDiff == ret.state.args[2]
            languageDiff == ret.state.args[3]
        IN /\ systemDiff.op = "diff" /\ languageDiff.op = "diff"
           /\ g.SystemPackages # <<>> =>
                 /\ \E n \in Added(systemDiff) : IsRun(n, aptCmd(g))
                 /\ \A n \in Nodes(languageDiff) : ~IsRun(n, aptCmd(g))
           /\ g.PyPIPackages # <<>> =>
                 /\ \E n \in Added(languageDiff) : IsRun(n, pipCmd(g))
                 /\ \A n \in Nodes(systemDiff) : ~IsRun(n, pipCmd(g))

C3_Witness ==
    /\ Compiled
    /\ g.SystemPackages # <<>> /\ g.PyPIPackages # <<>>
    /\ g.PyPIMirror # Nil /\ g.BuiltinSystemPackages # <<>>
    /\ \E n \in Added(ret.state.args[2]) : IsRun(n, aptCmd(g))
    /\ \E n \in Added(ret.state.args[3]) : IsRun(n, pipCmd(g))

C5_AppendedOnce ==
    (g0.CUDA # Nil /\ g0.CUDNN # Nil) =>
        /\ ret.fn = "compileBase" =>
              g.BuiltinSystemPackages =
                  g0.BuiltinSystemPackages \o <<g0.Language, g0.Language \o "-pip">>
        /\ (Compiled /\ g = g0) =>
              \E n \in Nodes(ret.state) :
                  IsRun(n, builtinCmd(g0.BuiltinSystemPackages
                                        \o <<g0.Language, g0.Language \o "-pip">>))

(* C6: a Compile that directly follows a Compile of the same Graph, with    *)
(* the same plugin cache behaviour, returns the same State and the same     *)
(* error.                                                                   *)
C6_CompileIdempotent ==
    [][(compiles >= 1 /\ compiles' = compiles + 1) =>
          /\ ret'.state = ret.state
          /\ ret'.err = ret.err
          /\ ret'.downloads = ret.downloads
          /\ g' = g]_vars

C6_Witness ==
    /\ compiles = 2 /\ Compiled
    /\ g.CUDA # Nil
    /\ \E n \in Nodes(ret.state) :
          IsRun(n, builtinCmd(g0.BuiltinSystemPackages
                                \o <<g0.Language, g0.Language \o "-pip">>))

(* C7: when the plugin cache first fails at plugin i, it has been invoked   *)
(* for plugins 1..i in list order and for none after, compileVSCode returns *)
(* no layer, and Compile returns an error with the zero State.              *)
C7_PluginFailFast ==
    LET i == FirstFailure(g, failing)
    IN (i > 0 /\ ret.fn \in {"Compile", "compileVSCode"}) =>
          /\ ret.downloads = SubSeq(g.VSCodePlugins, 1, i)
          /\ ret.err # NoErr
          /\ ret.state = ZeroState
          /\ ret.fn = "compileVSCode" => ret.isNil

C7_Witness ==
    /\ ret.fn = "Compile"
    /\ Len(g.VSCodePlugins) = 3
    /\ FirstFailure(g, failing) = 2
    /\ ret.downloads = <<g.VSCodePlugins[1], g.VSCodePlugins[2]>>

(* C8: a conditional layer builder whose triggering configuration is absent *)
(* returns exactly the State it was given and leaves the Graph unchanged.   *)
C8_ShortCircuit ==
    [][/\ (ret'.fn = "compileUbuntuAPT" /\ g.UbuntuAPTSource = Nil) =>
              (ret'.state = ret'.root /\ g' = g)
       /\ (ret'.fn = "compilePyPIMirror" /\ g.PyPIMirror = Nil) =>
              (ret'.state = ret'.root /\ g' = g)
       /\ (ret'.fn = "compileBuiltinSystemPackages" /\ g.BuiltinSystemPackages = <<>>) =>
              (ret'.state = ret'.root /\ g' = g)
       /\ (ret'.fn = "compilePyPIPackages" /\ g.PyPIPackages = <<>>) =>
              (ret'.state = ret'.root /\ g' = g)
       /\ (ret'.fn = "compileSystemPackages" /\ g.SystemPackages = <<>>) =>
              (ret'.state = ret'.root /\ g' = g)]_vars

C8_Witness ==
    /\ ret.fn = "compileBuiltinSystemPackages"
    /\ g.BuiltinSystemPackages = <<>>
    /\ ret.root.op = "merge"
    /\ ret.state = ret.root

(* C9: base selection returns a base image for every combination of the two *)
(* GPU versions: the baseline image, the built-in list untouched, when      *)
(* neither is set; the GPU image, the language and its pip appended, when   *)
(* at least one is set.                                                     *)
C9_BaseSelectionTotal ==
    ret.fn = "compileBase" =>
        /\ ~ret.panicked
        /\ ret.state.op = "image"
        /\ (g.CUDA = Nil /\ g.CUDNN = Nil) =>
              /\ ret.state = Image("docker.io/library/python:3.8")
              /\ g = g0
        /\ (g.CUDA # Nil \/ g.CUDNN # Nil) =>
              /\ ret.state # Image("docker.io/library/python:3.8")
              /\ Len(g.BuiltinSystemPackages) >= Len(g0.BuiltinSystemPackages) + 2
              /\ SubSeq(g.BuiltinSystemPackages, Len(g.BuiltinSystemPackages) - 1,
                        Len(g.BuiltinSystemPackages))
                     = <<g.Language, g.Language \o "-pip">>

(* C10: a clone is attempted only by a call that saw the cache directory    *)
(* absent; a call that saw it present returns nil and leaves it alone; a    *)
(* failed existence check is returned with no clone attempted; at most one  *)
(* clone succeeds and every later call attempts none and leaves the         *)
(* directory alone.                                                         *)
C10_CloneOnce ==
    /\ \A i \in DOMAIN shellLog :
          LET c == shellLog[i]
          IN /\ c.attempted => (c.observed = "absent" /\ c.dirBefore = "absent")
             /\ c.observed = "present" =>
                   (c.err = NoErr /\ ~c.attempted /\ c.dirAfter = c.dirBefore)
             /\ c.observed = "error" =>
                   (c.err # NoErr /\ ~c.attempted /\ c.dirAfter = c.dirBefore)
             /\ c.cloned => (c.attempted /\ c.err = NoErr /\ c.dirAfter = "present")
    /\ Cardinality({i \in DOMAIN shellLog : shellLog[i].cloned}) <= 1
    /\ \A i, j \in DOMAIN shellLog :
          (i < j /\ shellLog[i].cloned) =>
              (~shellLog[j].attempted /\ shellLog[j].dirAfter = shellLog[j].dirBefore)

C10_Witness ==
    /\ Len(shellLog) >= 3
    /\ shellLog[1].observed = "absent" /\ ~shellLog[1].cloned
    /\ shellLog[2].cloned
    /\ shellLog[3].observed = "present"

====
